---- MODULE Spec2Model ----
(***************************************************************************)
(* Model of the luggage compliance engine of policy-corpus:                *)
(*   luggage/luggage_compliance/luggage.py            (class Luggage)      *)
(*   luggage/luggage_compliance/luggage_compliance.py (LuggageCompliance,  *)
(*                                          LuggageComplianceRequest)      *)
(*                                                                         *)
(* A request owns a list of Luggage objects.  The evaluators mutate the    *)
(* objects in place and return lists of references to them.  The list      *)
(* request.luggages is the heap of the model: a reference to a Luggage is  *)
(* its position in that list.                                              *)
(*                                                                         *)
(* Numbers.  Weights are whole kilograms.  A stored dimension is a whole   *)
(* number of its own unit (cm, mm or in).  A length converted to           *)
(* centimetres is held in hundredths of a centimetre, so that the three    *)
(* conversions of Luggage._get_dimensions_in_cm (x 1, / 10, x 2.54) are    *)
(* exact on integers: cm -> x 100, mm -> x 10, in -> x 254.  Limits given  *)
(* in the source in cm are multiplied by 100 where they are compared.      *)
(***************************************************************************)
EXTENDS Integers, Sequences, FiniteSets, TLC

(***************************************************************************)
(* Bounds of the model.                                                    *)
(***************************************************************************)
\* longest list of luggages of a request
MaxItems == 3
\* number of test_eligibility calls made on one request object
MaxCalls == 2
\* most carry-on and personal items handed to a direct call of validate_carry_on
MaxCabinArgs == 4
\* most checked items handed to a direct call of validate_checked_baggage
MaxCheckedArgs == 3
\* largest carry_on_capacity handed to a direct call of validate_checked_baggage
MaxCapacity == 2

(***************************************************************************)
(* LuggageCompliance.__init__ : the policy tables.                         *)
(***************************************************************************)
TravelClasses == {"Economy", "Business", "First"}

AgeCategories == {"adult", "child", "infant"}

classes(c) ==
    CASE c = "Economy" ->
           [carry_on |-> [quantity |-> 1, weight_limit |-> 7,
                          size_limit |-> <<55, 40, 23>>],
            checked  |-> [allowance |-> 1, weight_limit |-> 23, size_limit |-> 158]]
      [] c = "Business" ->
           [carry_on |-> [quantity |-> 2, weight_limit |-> 12,
                          size_limit |-> <<55, 40, 23>>],
            checked  |-> [allowance |-> 2, weight_limit |-> 32, size_limit |-> 158]]
      [] c = "First" ->
           [carry_on |-> [quantity |-> 2, weight_limit |-> 12,
                          size_limit |-> <<55, 40, 23>>],
            checked  |-> [allowance |-> 3, weight_limit |-> 32, size_limit |-> 158]]

child_allowances(p) ==
    CASE p = "child"  -> [allowance |-> 1, weight_limit |-> 23, size_limit |-> 158]
      [] p = "infant" -> [allowance |-> 1, weight_limit |-> 10, size_limit |-> 158]

excess_fees ==
    [overweight |-> 75, oversize |-> 100, extra_piece |-> 150]

\* the hard cargo thresholds of validate_checked_baggage (kg, cm)
CargoWeight == 32

CargoSize == 203

Max(a, b) == IF a >= b THEN a ELSE b

(***************************************************************************)
(* class Luggage.                                                          *)
(* fault is not a field of the source: it says what reading the object     *)
(* does.  "none": a well-formed Luggage.  "dim": the dim dictionary, which *)
(* the constructor keeps by reference, has lost a key since construction,  *)
(* so _get_dimensions_in_cm raises KeyError (and so does __str__, which    *)
(* calls it).  "attr": the list element is not a Luggage at all (None),    *)
(* so reading .storage raises AttributeError.                              *)
(***************************************************************************)
StorageTypes == {"carry-on", "checked", "special", "personal"}

Units == {"cm", "in", "mm"}

\* Luggage.__init__ with the default flags
Luggage(storage, weight, height, width, depth, unit) ==
    [storage |-> storage, excess |-> FALSE, special |-> FALSE,
     compliance |-> FALSE, weight |-> weight,
     height |-> height, width |-> width, depth |-> depth, unit |-> unit,
     fault |-> "none"]

\* the validation of Luggage.__init__
ValidLuggage(l) ==
    /\ l.storage \in StorageTypes
    /\ l.weight >= 0
    /\ l.height >= 0 /\ l.width >= 0 /\ l.depth >= 0
    /\ l.unit \in Units

\* a conversion that knows the metric units only and reads inches as cm
UnitFactorMetric(u) ==
    CASE u = "mm" -> 10
      [] OTHER    -> 100

\* hundredths of a centimetre in one unit of u
UnitFactor(u) ==
    CASE u = "mm" -> 10
      [] u = "in" -> 254
      [] OTHER    -> 100

\* Luggage._get_dimensions_in_cm, in hundredths of a centimetre
GetDimensionsInCm(l) ==
    [height |-> l.height * UnitFactor(l.unit),
     width  |-> l.width  * UnitFactor(l.unit),
     depth  |-> l.depth  * UnitFactor(l.unit)]

\* does _get_dimensions_in_cm (and so __str__) raise on this object
DimReadRaises(l) == l.fault # "none"

\* Luggage.get_total_size_cm
GetTotalSizeCm(l) ==
    LET d == GetDimensionsInCm(l) IN d.height + d.width + d.depth

\* Luggage.get_dimensions_list_cm
GetDimensionsListCm(l) ==
    LET d == GetDimensionsInCm(l) IN <<d.height, d.width, d.depth>>

\* all(dim <= lim for dim, lim in zip(dimensions_cm, size_limit)), limits in cm
FitsSizeLimit(dims, limits) ==
    \A k \in 1..3 : dims[k] <= limits[k] * 100

\* an order that puts the heavier item first where the lighter is asked for
SortsBeforeReversed(wa, wb, reverse) ==
    IF reverse THEN wa < wb ELSE wa > wb

(***************************************************************************)
(* list.sort(key=weight), stable; reverse=True keeps equal keys in their   *)
(* original order too.  seq is a list of references into items.            *)
(***************************************************************************)
\* does weight wa sort strictly before weight wb in the order asked for
SortsBefore(wa, wb, reverse) ==
    IF reverse THEN wa > wb ELSE wa < wb

RECURSIVE InsertStable(_, _, _, _)
InsertStable(items, sorted, x, reverse) ==
    IF sorted = <<>> THEN <<x>>
    ELSE IF SortsBefore(items[x].weight, items[Head(sorted)].weight, reverse)
         THEN <<x>> \o sorted
         ELSE <<Head(sorted)>> \o InsertStable(items, Tail(sorted), x, reverse)

RECURSIVE SortByWeightFrom(_, _, _, _)
SortByWeightFrom(items, seq, acc, reverse) ==
    IF seq = <<>> THEN acc
    ELSE SortByWeightFrom(items, Tail(seq),
                          InsertStable(items, acc, Head(seq), reverse), reverse)

SortByWeight(items, seq, reverse) == SortByWeightFrom(items, seq, <<>>, reverse)

\* [x for x in seq if x.storage == storage]
RECURSIVE SelectRefs(_, _, _)
SelectRefs(items, seq, storage) ==
    IF seq = <<>> THEN <<>>
    ELSE IF items[Head(seq)].storage = storage
         THEN <<Head(seq)>> \o SelectRefs(items, Tail(seq), storage)
         ELSE SelectRefs(items, Tail(seq), storage)

AllRefs(items) == [k \in 1..Len(items) |-> k]

Range(seq) == {seq[k] : k \in 1..Len(seq)}

(***************************************************************************)
(* LuggageCompliance.validate_carry_on                                     *)
(* The result is [raised, items, ok, message, checked_candidates,          *)
(* compliant_items]: raised says that the call ended with an exception     *)
(* (then only items, the objects as the call left them, is meaningful);    *)
(* compliant_items is the local list of the items left in the cabin.       *)
(***************************************************************************)
\* lines 60-62: size_ok and weight_ok of one readable item
CarryOnSizeOk(l, class_policy) ==
    FitsSizeLimit(GetDimensionsListCm(l), class_policy.size_limit)

CarryOnWeightOk(l, class_policy) ==
    l.weight <= class_policy.weight_limit

\* lines 57-79: the loop over total_items, from position k on.
\* A dim fault raises in get_dimensions_list_cm; the handler's print formats
\* the item with __str__, which raises again before the handler has set
\* compliance, and that exception leaves validate_carry_on.
RECURSIVE CarryOnLoop(_, _, _, _)
CarryOnLoop(class_policy, total_items, k, acc) ==
    IF k > Len(total_items) THEN acc
    ELSE LET i == total_items[k]
             l == acc.items[i]
         IN  IF DimReadRaises(l)
             THEN [acc EXCEPT !.raised = TRUE]
             ELSE IF ~CarryOnSizeOk(l, class_policy) \/ ~CarryOnWeightOk(l, class_policy)
                  THEN CarryOnLoop(class_policy, total_items, k + 1,
                         [acc EXCEPT !.items[i].compliance = FALSE,
                                     !.checked_candidates = Append(@, i)])
                  ELSE CarryOnLoop(class_policy, total_items, k + 1,
                         [acc EXCEPT !.items[i].compliance = TRUE,
                                     !.compliant_items = Append(@, i)])

\* line 82
MaxCabinItems(class_policy) == class_policy.quantity + 1

\* a slice that starts one place too far
OverflowOffByOne(items, compliant_items, max_items) ==
    SubSeq(SortByWeight(items, compliant_items, TRUE),
           max_items + 2, Len(compliant_items))

\* lines 85-86: the sorted compliant list and its slice [max_items:]
Overflow(items, compliant_items, max_items) ==
    SubSeq(SortByWeight(items, compliant_items, TRUE),
           max_items + 1, Len(compliant_items))

\* line 95: the slice [:max_items] of the sorted list
Kept(items, compliant_items, max_items) ==
    SubSeq(SortByWeight(items, compliant_items, TRUE), 1, max_items)

\* lines 89-91
MarkOverflow(items, overflow) ==
    [k \in 1..Len(items) |->
        IF k \in Range(overflow)
        THEN [items[k] EXCEPT !.excess = TRUE, !.compliance = FALSE]
        ELSE items[k]]

\* lines 97-99
CarryOnMessage(checked_candidates) ==
    IF Len(checked_candidates) > 0
    THEN <<"Mais n bagage(s) doi(ven)t etre deplace(s) en soute">>
    ELSE <<"Bagages cabine conformes.">>

\* the outcome of a call that ended with an exception
CarryOnRaised(items) ==
    [raised |-> TRUE, items |-> items, ok |-> FALSE, message |-> <<>>,
     checked_candidates |-> <<>>, compliant_items |-> <<>>]

\* lines 88-95 and 97-101: the overflow is marked and moved, the rest kept
CarryOnEvict(loop, overflow, kept) ==
    [raised |-> FALSE,
     items |-> MarkOverflow(loop.items, overflow),
     ok |-> TRUE,
     message |-> CarryOnMessage(loop.checked_candidates \o overflow),
     checked_candidates |-> loop.checked_candidates \o overflow,
     compliant_items |-> kept]

\* lines 81-101: what follows the loop
CarryOnAfterLoop(max_items, loop) ==
    IF loop.raised THEN loop
    ELSE IF Len(loop.compliant_items) > max_items
    THEN CarryOnEvict(loop,
                      Overflow(loop.items, loop.compliant_items, max_items),
                      Kept(loop.items, loop.compliant_items, max_items))
    ELSE [loop EXCEPT !.ok = TRUE,
                      !.message = CarryOnMessage(loop.checked_candidates)]

validate_carry_on(items, travel_class, carry_on_items, personal_items) ==
    IF travel_class \notin TravelClasses THEN CarryOnRaised(items)
    ELSE CarryOnAfterLoop(
             MaxCabinItems(classes(travel_class).carry_on),
             CarryOnLoop(classes(travel_class).carry_on,
                         carry_on_items \o personal_items, 1,
                         [CarryOnRaised(items) EXCEPT !.raised = FALSE]))

(***************************************************************************)
(* LuggageCompliance.validate_checked_baggage                              *)
(* The result is [raised, items, ok, message, cargo_items, fees] and the   *)
(* locals retained_checked_items, carryon_candidates, excess_items and     *)
(* piece_marked (the slice retained_checked_items[-excess_items:]).        *)
(***************************************************************************)
\* an overlay that replaces the weight limit instead of raising it
CheckedPolicyReplacing(travel_class, passenger_type) ==
    LET base == classes(travel_class).checked IN
    IF passenger_type \in {"child", "infant"}
    THEN LET child_policy == child_allowances(passenger_type) IN
         [base EXCEPT !.allowance = @ + child_policy.allowance,
                      !.weight_limit = child_policy.weight_limit]
    ELSE base

\* an overlay on a policy that has the Economy weight limit in every class
CheckedPolicyEconomyWeight(travel_class, passenger_type) ==
    LET base == [classes(travel_class).checked EXCEPT
                    !.weight_limit = classes("Economy").checked.weight_limit] IN
    IF passenger_type \in {"child", "infant"}
    THEN LET child_policy == child_allowances(passenger_type) IN
         [base EXCEPT !.allowance = @ + child_policy.allowance,
                      !.weight_limit = Max(@, child_policy.weight_limit)]
    ELSE base

\* lines 110, 117-120: the copy of the class policy with the age overlay
CheckedPolicy(travel_class, passenger_type) ==
    LET base == classes(travel_class).checked IN
    IF passenger_type \in {"child", "infant"}
    THEN LET child_policy == child_allowances(passenger_type) IN
         [base EXCEPT !.allowance = @ + child_policy.allowance,
                      !.weight_limit = Max(@, child_policy.weight_limit)]
    ELSE base

\* a reclaim test that looks at the size only
CanReturnToCabinBySize(l, travel_class, carry_on_capacity) ==
    /\ carry_on_capacity > 0
    /\ FitsSizeLimit(GetDimensionsListCm(l), classes(travel_class).carry_on.size_limit)

\* lines 134-136: may the item go back to the cabin
CanReturnToCabin(l, travel_class, carry_on_capacity) ==
    /\ carry_on_capacity > 0
    /\ FitsSizeLimit(GetDimensionsListCm(l), classes(travel_class).carry_on.size_limit)
    /\ l.weight <= classes(travel_class).carry_on.weight_limit

\* lines 127-149: the cabin-reclaim loop over the sorted list, from position k.
\* A dim fault is caught here: the handler prints the exception only.
RECURSIVE ReclaimLoop(_, _, _, _)
ReclaimLoop(travel_class, checked_items, k, acc) ==
    IF k > Len(checked_items) THEN acc
    ELSE LET i == checked_items[k]
             l == acc.items[i]
         IN  IF DimReadRaises(l)
             THEN ReclaimLoop(travel_class, checked_items, k + 1,
                    [acc EXCEPT !.retained_checked_items = Append(@, i)])
             ELSE IF CanReturnToCabin(l, travel_class, acc.carry_on_capacity)
             THEN ReclaimLoop(travel_class, checked_items, k + 1,
                    [acc EXCEPT !.items[i].storage = "carry-on",
                                !.items[i].compliance = TRUE,
                                !.items[i].excess = FALSE,
                                !.carryon_candidates = Append(@, i),
                                !.carry_on_capacity = @ - 1])
             ELSE ReclaimLoop(travel_class, checked_items, k + 1,
                    [acc EXCEPT !.retained_checked_items = Append(@, i)])

\* line 164; a failed size computation stands for float('inf') (line 160)
IsCargo(l) ==
    \/ l.weight > CargoWeight
    \/ DimReadRaises(l)
    \/ GetTotalSizeCm(l) > CargoSize * 100

\* line 172
IsOverweight(l, class_policy) == l.weight > class_policy.weight_limit

\* line 178
IsOversize(l, class_policy) ==
    /\ GetTotalSizeCm(l) > class_policy.size_limit * 100
    /\ GetTotalSizeCm(l) <= CargoSize * 100

\* lines 152-181: the loop over retained_checked_items, from position k.
\* The cargo branch prints the item with __str__ after it has marked it: on
\* an item whose dimensions cannot be read that print raises, and the
\* exception leaves validate_checked_baggage.
RECURSIVE FeeLoop(_, _, _, _)
FeeLoop(class_policy, retained_checked_items, k, acc) ==
    IF k > Len(retained_checked_items) THEN acc
    ELSE LET i == retained_checked_items[k]
             l == acc.items[i]
         IN  IF IsCargo(l)
             THEN LET marked == [acc EXCEPT !.items[i].special = TRUE,
                                            !.items[i].compliance = FALSE,
                                            !.cargo_items = Append(@, i)]
                  IN  IF DimReadRaises(l)
                      THEN [marked EXCEPT !.raised = TRUE]
                      ELSE FeeLoop(class_policy, retained_checked_items, k + 1, marked)
             ELSE LET ow == IsOverweight(l, class_policy)
                      os == IsOversize(l, class_policy)
                  IN  FeeLoop(class_policy, retained_checked_items, k + 1,
                        [acc EXCEPT
                           !.items[i].excess = (@ \/ ow \/ os),
                           !.fees = @ + (IF ow THEN excess_fees.overweight ELSE 0)
                                      + (IF os THEN excess_fees.oversize ELSE 0),
                           !.message_parts = @ \o (IF ow THEN <<"Surpoids">> ELSE <<>>)
                                               \o (IF os THEN <<"Surtaille">> ELSE <<>>)])

\* a piece count that is off by one
ExcessItemsOffByOne(retained_checked_items, class_policy) ==
    Max(0, Len(retained_checked_items) - class_policy.allowance + 1)

\* line 184
ExcessItems(retained_checked_items, class_policy) ==
    Max(0, Len(retained_checked_items) - class_policy.allowance)

\* a slice taken from the front of the list
PieceMarkedFromFront(retained_checked_items, excess_items) ==
    SubSeq(retained_checked_items, 1, excess_items)

\* line 190: retained_checked_items[-excess_items:], for excess_items > 0
PieceMarked(retained_checked_items, excess_items) ==
    SubSeq(retained_checked_items,
           Len(retained_checked_items) - excess_items + 1,
           Len(retained_checked_items))

\* lines 190-191
MarkExcess(items, refs) ==
    [k \in 1..Len(items) |->
        IF k \in Range(refs) THEN [items[k] EXCEPT !.excess = TRUE] ELSE items[k]]

\* a return that forgets the failure branch
CheckedSuccessAlways(cargo_items) == TRUE

\* lines 200-204: success is False exactly when cargo_items is not empty
CheckedSuccess(cargo_items) == cargo_items = <<>>

\* lines 194-197
CheckedMessage(message_parts) ==
    IF message_parts # <<>>
    THEN <<"Frais applicables:">> \o message_parts
    ELSE <<"Bagages enregistres conformes.">>

\* the outcome of a call that ended with an exception
CheckedRaised(items) ==
    [raised |-> TRUE, items |-> items, ok |-> FALSE, message |-> <<>>,
     cargo_items |-> <<>>, fees |-> 0,
     retained_checked_items |-> <<>>, carryon_candidates |-> <<>>,
     excess_items |-> 0, piece_marked |-> <<>>]

\* line 121
ChildMessage(passenger_type) ==
    IF passenger_type \in {"child", "infant"}
    THEN <<"Allowance enfant appliquee">> ELSE <<>>

\* lines 186-204: the piece fee, the marking, the message and the return
CheckedReturn(reclaim, loop, excess_items, piece_marked) ==
    [raised |-> FALSE,
     items |-> MarkExcess(loop.items, piece_marked),
     ok |-> CheckedSuccess(loop.cargo_items),
     message |->
        (IF loop.cargo_items # <<>>
         THEN <<"ECHEC: n article(s) doivent etre expedies comme fret.">>
         ELSE <<>>)
        \o CheckedMessage(loop.message_parts \o
                          (IF excess_items > 0
                           THEN <<"n bagage(s) supplementaire(s)">> ELSE <<>>)),
     cargo_items |-> loop.cargo_items,
     fees |-> loop.fees + excess_fees.extra_piece * excess_items,
     retained_checked_items |-> reclaim.retained_checked_items,
     carryon_candidates |-> reclaim.carryon_candidates,
     excess_items |-> excess_items,
     piece_marked |-> piece_marked]

\* lines 183-191: what follows the fee loop
CheckedAfterFees(class_policy, reclaim, loop, excess_items) ==
    IF loop.raised THEN CheckedRaised(loop.items)
    ELSE CheckedReturn(reclaim, loop, excess_items,
                       IF excess_items > 0
                       THEN PieceMarked(reclaim.retained_checked_items, excess_items)
                       ELSE <<>>)

\* lines 151-191: what follows the cabin-reclaim loop
CheckedAfterReclaim(class_policy, passenger_type, reclaim) ==
    CheckedAfterFees(class_policy, reclaim,
        FeeLoop(class_policy, reclaim.retained_checked_items, 1,
                [items |-> reclaim.items, cargo_items |-> <<>>, fees |-> 0,
                 message_parts |-> ChildMessage(passenger_type), raised |-> FALSE]),
        ExcessItems(reclaim.retained_checked_items, class_policy))

validate_checked_baggage(items, travel_class, checked_items, passenger_type, carry_on_capacity) ==
    IF travel_class \notin TravelClasses THEN CheckedRaised(items)
    ELSE CheckedAfterReclaim(
             CheckedPolicy(travel_class, passenger_type), passenger_type,
             ReclaimLoop(travel_class, SortByWeight(items, checked_items, FALSE), 1,
                         [items |-> items, retained_checked_items |-> <<>>,
                          carryon_candidates |-> <<>>,
                          carry_on_capacity |-> carry_on_capacity]))

(***************************************************************************)
(* LuggageCompliance.test_eligibility                                      *)
(* The result is [raised, fault, items, valid, message, moved, cargo,      *)
(* fees] and the local checked_result: fault says that an exception was    *)
(* raised inside the try block, raised that one left test_eligibility.     *)
(***************************************************************************)
\* a reclassification that leaves the storage of the moved items alone
MoveToCheckedKeepingStorage(items, carry_on_to_check) == items

\* lines 223-224
MoveToChecked(items, carry_on_to_check) ==
    [k \in 1..Len(items) |->
        IF k \in Range(carry_on_to_check)
        THEN [items[k] EXCEPT !.storage = "checked"] ELSE items[k]]

\* a capacity that forgets the personal-item place it already counted
RemainingCapacityOneMore(travel_class, n_carry_on, n_personal, n_to_check) ==
    Max(0, classes(travel_class).carry_on.quantity + 2
           - (n_carry_on + n_personal - n_to_check))

\* lines 230-232
RemainingCapacity(travel_class, n_carry_on, n_personal, n_to_check) ==
    Max(0, classes(travel_class).carry_on.quantity + 1
           - (n_carry_on + n_personal - n_to_check))

\* lines 240-246
FullMessage(carry_on_msg, checked_message) ==
    LET messages ==
          (IF carry_on_msg # <<"Bagages cabine conformes.">>
           THEN carry_on_msg ELSE <<>>)
          \o (IF checked_message # <<"Bagages enregistres conformes.">>
              THEN checked_message ELSE <<>>)
    IN  IF messages # <<>> THEN messages
        ELSE <<"Tous les bagages sont conformes.">>

\* line 249
FinalResult(checked_result, cargo_items) ==
    checked_result /\ Len(cargo_items) = 0

\* the outcome of a try block that raised
Thrown(items) ==
    [raised |-> TRUE, fault |-> TRUE, items |-> items,
     valid |-> FALSE, message |-> <<>>, moved |-> <<>>,
     cargo |-> <<>>, fees |-> 0, checked_result |-> FALSE]

\* lines 239-251: the message, the verdict and the return
AfterChecked(co, ch) ==
    IF ch.raised THEN Thrown(ch.items)
    ELSE [raised |-> FALSE, fault |-> FALSE, items |-> ch.items,
          valid |-> FinalResult(ch.ok, ch.cargo_items),
          message |-> FullMessage(co.message, ch.message),
          moved |-> co.checked_candidates,
          cargo |-> ch.cargo_items, fees |-> ch.fees,
          checked_result |-> ch.ok]

\* lines 222-237: reclassification, capacity and the checked stage
AfterCarryOn(travel_class, age_category, carry_on_items, personal_items, checked_items, co) ==
    IF co.raised THEN Thrown(co.items)
    ELSE AfterChecked(co,
           validate_checked_baggage(
               MoveToChecked(co.items, co.checked_candidates),
               travel_class,
               checked_items \o co.checked_candidates,
               age_category,
               RemainingCapacity(travel_class, Len(carry_on_items),
                                 Len(personal_items), Len(co.checked_candidates))))

\* lines 217-220: the carry-on stage on the partition
AfterPartition(items, travel_class, age_category, carry_on_items, personal_items, checked_items) ==
    AfterCarryOn(travel_class, age_category, carry_on_items, personal_items,
                 checked_items,
                 validate_carry_on(items, travel_class, carry_on_items,
                                   personal_items))

\* lines 209-251: the try block.  Reading .storage of an element that is not
\* a Luggage raises in the first list comprehension, before any mutation.
TryBlock(items, travel_class, age_category) ==
    IF \E k \in 1..Len(items) : items[k].fault = "attr" THEN Thrown(items)
    ELSE AfterPartition(items, travel_class, age_category,
                        SelectRefs(items, AllRefs(items), "carry-on"),
                        SelectRefs(items, AllRefs(items), "personal"),
                        SelectRefs(items, AllRefs(items), "checked"))

\* a boundary that lets the exception through
ExceptHandlerPropagating(body) == body

\* lines 253-256: except Exception
ExceptHandler(body) ==
    IF body.raised
    THEN [raised |-> FALSE, fault |-> TRUE, items |-> body.items,
          valid |-> FALSE, message |-> <<"Erreur lors de la validation">>,
          moved |-> <<>>, cargo |-> <<>>, fees |-> 0,
          checked_result |-> body.checked_result]
    ELSE body

test_eligibility(items, travel_class, age_category) ==
    ExceptHandler(TryBlock(items, travel_class, age_category))

(***************************************************************************)
(* LuggageComplianceRequest.__init__ : the validation of the request.      *)
(***************************************************************************)
ValidRequest(cls, age) ==
    /\ cls \in {"Economy", "Business", "First"}
    /\ age \in {"adult", "child", "infant"}

(***************************************************************************)
(* The objects a request is built from.  Every Luggage passes the          *)
(* constructor's validation; the faulty objects are a Luggage whose dim    *)
(* dictionary was changed by its owner after construction, and None.       *)
(***************************************************************************)
Pool ==
    { Luggage("carry-on", 7, 55, 40, 23, "cm"),
      Luggage("carry-on", 8, 550, 400, 230, "mm"),
      Luggage("carry-on", 3, 60, 40, 25, "cm"),
      Luggage("personal", 3, 20, 15, 5, "in"),
      [Luggage("checked", 3, 35, 25, 20, "cm")
          EXCEPT !.compliance = TRUE, !.excess = TRUE],
      Luggage("checked", 23, 60, 40, 25, "cm"),
      Luggage("checked", 25, 60, 40, 25, "cm"),
      Luggage("checked", 32, 30, 20, 15, "in"),
      Luggage("checked", 35, 60, 40, 25, "cm"),
      Luggage("checked", 23, 40, 30, 12, "in"),
      [Luggage("carry-on", 3, 35, 25, 20, "cm") EXCEPT !.fault = "dim"],
      [Luggage("checked", 23, 60, 40, 25, "cm") EXCEPT !.fault = "dim"],
      [Luggage("checked", 0, 0, 0, 0, "cm") EXCEPT !.fault = "attr"] }

LuggageLists == UNION { [1..n -> Pool] : n \in 0..MaxItems }

\* the Luggage objects handed to a direct call of validate_carry_on
CabinPool ==
    {l \in Pool : l.storage \in {"carry-on", "personal"} /\ l.fault # "attr"}
    \cup { Luggage("carry-on", 5, 55, 40, 23, "cm"),
           Luggage("personal", 7, 35, 25, 20, "cm"),
           Luggage("personal", 12, 350, 250, 200, "mm") }

CabinLists == UNION { [1..n -> CabinPool] : n \in 0..MaxCabinArgs }

\* the Luggage objects handed to a direct call of validate_checked_baggage
CheckedPool ==
    {l \in Pool : l.storage = "checked" /\ l.fault # "attr"}
    \cup { Luggage("checked", 7, 550, 400, 230, "mm"),
           Luggage("checked", 12, 20, 15, 5, "in") }

CheckedLists == UNION { [1..n -> CheckedPool] : n \in 0..MaxCheckedArgs }

(***************************************************************************)
(* The state: the request (or, for a direct call of an evaluator, the      *)
(* arguments), and the last call made on it.                               *)
(***************************************************************************)
VARIABLES travel_class, age_category, luggages, calls, last

vars == <<travel_class, age_category, luggages, calls, last>>

NoCall == [op |-> "none", pre |-> <<>>, capacity |-> 0, ret |-> <<>>]

\* a request as LuggageComplianceRequest.__init__ accepts it
Init ==
    /\ travel_class \in {c \in TravelClasses \cup {"Premium"} : ValidRequest(c, "adult")}
    /\ age_category \in {a \in AgeCategories \cup {"senior"} : ValidRequest("Economy", a)}
    /\ luggages \in LuggageLists
    /\ calls = 0
    /\ last = NoCall

\* the request and the record of the call, once test_eligibility has returned r
ReturnTestEligibility(r) ==
    /\ luggages' = r.items
    /\ last' = [op |-> "test_eligibility", pre |-> luggages, capacity |-> 0,
                ret |-> [raised |-> r.raised, fault |-> r.fault,
                         valid |-> r.valid, message |-> r.message,
                         moved |-> r.moved, cargo |-> r.cargo, fees |-> r.fees,
                         checked_result |-> r.checked_result]]

\* a call of test_eligibility on the request
TestEligibility ==
    /\ calls < MaxCalls
    /\ ReturnTestEligibility(test_eligibility(luggages, travel_class, age_category))
    /\ calls' = calls + 1
    /\ UNCHANGED <<travel_class, age_category>>

Next == TestEligibility

Spec == Init /\ [][Next]_vars

(***************************************************************************)
(* Direct calls of validate_carry_on: any travel class string, any lists   *)
(* of carry-on and personal Luggage.                                       *)
(***************************************************************************)
InitCarryOn ==
    /\ travel_class \in TravelClasses \cup {"Premium"}
    /\ age_category = "adult"
    /\ luggages \in CabinLists
    /\ calls = 0
    /\ last = NoCall

ReturnValidateCarryOn(r) ==
    /\ luggages' = r.items
    /\ last' = [op |-> "validate_carry_on", pre |-> luggages, capacity |-> 0,
                ret |-> [raised |-> r.raised, ok |-> r.ok, message |-> r.message,
                         checked_candidates |-> r.checked_candidates,
                         compliant_items |-> r.compliant_items]]

ValidateCarryOn ==
    /\ last.op = "none"
    /\ ReturnValidateCarryOn(
           validate_carry_on(luggages, travel_class,
                             SelectRefs(luggages, AllRefs(luggages), "carry-on"),
                             SelectRefs(luggages, AllRefs(luggages), "personal")))
    /\ UNCHANGED <<travel_class, age_category, calls>>

NextCarryOn == ValidateCarryOn

SpecCarryOn == InitCarryOn /\ [][NextCarryOn]_vars

(***************************************************************************)
(* Direct calls of validate_checked_baggage: any travel class string, any  *)
(* passenger type, any list of checked Luggage, any carry_on_capacity.     *)
(***************************************************************************)
InitChecked ==
    /\ travel_class \in TravelClasses \cup {"Premium"}
    /\ age_category \in AgeCategories
    /\ luggages \in CheckedLists
    /\ calls = 0
    /\ last = NoCall

ReturnValidateCheckedBaggage(cap, r) ==
    /\ luggages' = r.items
    /\ last' = [op |-> "validate_checked_baggage", pre |-> luggages,
                capacity |-> cap,
                ret |-> [raised |-> r.raised, ok |-> r.ok, message |-> r.message,
                         cargo_items |-> r.cargo_items, fees |-> r.fees,
                         retained_checked_items |-> r.retained_checked_items,
                         carryon_candidates |-> r.carryon_candidates,
                         excess_items |-> r.excess_items,
                         piece_marked |-> r.piece_marked]]

ValidateCheckedBaggage ==
    /\ last.op = "none"
    /\ \E cap \in 0..MaxCapacity :
          ReturnValidateCheckedBaggage(cap,
              validate_checked_baggage(luggages, travel_class,
                  SelectRefs(luggages, AllRefs(luggages), "checked"),
                  age_category, cap))
    /\ UNCHANGED <<travel_class, age_category, calls>>

NextChecked == ValidateCheckedBaggage

SpecChecked == InitChecked /\ [][NextChecked]_vars

(***************************************************************************)
(* Requests whose items sit on and around the limits in each unit: calls   *)
(* of test_eligibility on them compare the units with each other.          *)
(***************************************************************************)
UnitPool ==
    { Luggage("carry-on", 7, 55, 40, 23, "cm"),
      Luggage("carry-on", 7, 560, 400, 230, "mm"),
      Luggage("personal", 3, 20, 15, 5, "in"),
      Luggage("checked", 3, 508, 381, 127, "mm"),
      Luggage("checked", 23, 80, 50, 28, "cm"),
      Luggage("checked", 23, 800, 500, 290, "mm"),
      Luggage("checked", 20, 1010, 760, 260, "mm"),
      Luggage("checked", 23, 40, 30, 10, "in") }

InitUnits ==
    /\ travel_class \in TravelClasses
    /\ age_category \in AgeCategories
    /\ luggages \in UNION { [1..n -> UnitPool] : n \in 0..MaxItems }
    /\ calls = 0
    /\ last = NoCall

SpecUnits == InitUnits /\ [][Next]_vars

(***************************************************************************)
(* Requests that are evaluated more than once: items of equal weight in    *)
(* the cabin and in the hold, so that the order of the lists matters.      *)
(***************************************************************************)
RepeatPool ==
    { Luggage("carry-on", 7, 55, 40, 23, "cm"),
      Luggage("carry-on", 8, 550, 400, 230, "mm"),
      Luggage("carry-on", 3, 60, 40, 25, "cm"),
      Luggage("personal", 3, 20, 15, 5, "in"),
      Luggage("checked", 3, 60, 40, 25, "cm"),
      [Luggage("checked", 3, 35, 25, 20, "cm")
          EXCEPT !.compliance = TRUE, !.excess = TRUE],
      Luggage("checked", 25, 60, 40, 25, "cm"),
      Luggage("checked", 35, 60, 40, 25, "cm"),
      [Luggage("checked", 23, 60, 40, 25, "cm") EXCEPT !.fault = "dim"] }

InitRepeat ==
    /\ travel_class \in TravelClasses
    /\ age_category \in AgeCategories
    /\ luggages \in UNION { [1..n -> RepeatPool] : n \in 0..MaxItems }
    /\ calls = 0
    /\ last = NoCall

SpecRepeat == InitRepeat /\ [][Next]_vars

(***************************************************************************)
(* Vocabulary of the properties.                                           *)
(***************************************************************************)
\* every element of the list is a Luggage
AllLuggage(items) == \A k \in 1..Len(items) : items[k].fault # "attr"

\* the last call was op and it returned (no exception left it)
Returned(op) == last.op = op /\ ~last.ret.raised

\* the references of the request's list, before the last call, per category
PreRefs(storage) == SelectRefs(last.pre, AllRefs(last.pre), storage)

\* seq without its element at position k
RemoveAt(seq, k) == SubSeq(seq, 1, k - 1) \o SubSeq(seq, k + 1, Len(seq))

\* seq without the reference x
RECURSIVE WithoutRef(_, _)
WithoutRef(seq, x) ==
    IF seq = <<>> THEN <<>>
    ELSE IF Head(seq) = x THEN WithoutRef(Tail(seq), x)
         ELSE <<Head(seq)>> \o WithoutRef(Tail(seq), x)

\* a readable item in cargo range: weight > 32 kg or total size > 203 cm
InCargoRange(l) ==
    /\ l.fault = "none"
    /\ (l.weight > 32 \/ GetTotalSizeCm(l) > 20300)

\* a readable item within the carry-on limits of the class
WithinCarryOnLimits(l, cls) ==
    /\ l.fault = "none"
    /\ l.weight <= classes(cls).carry_on.weight_limit
    /\ l.height * UnitFactor(l.unit) <= 5500
    /\ l.width * UnitFactor(l.unit) <= 4000
    /\ l.depth * UnitFactor(l.unit) <= 2300

\* the checked limits of the class under the age overlay, as the
\* specification states them: the allowance grows by the child or infant
\* allowance, the weight limit is the larger of the two
OverlaidAllowance(cls, age) ==
    classes(cls).checked.allowance + (IF age \in {"child", "infant"} THEN 1 ELSE 0)

OverlaidWeightLimit(cls, age) ==
    Max(classes(cls).checked.weight_limit,
        IF age = "child" THEN 23 ELSE IF age = "infant" THEN 10 ELSE 0)

(***************************************************************************)
(* C1.  In validate_checked_baggage (and so in test_eligibility) every     *)
(* checked item with weight > 32 kg or total size > 203 cm is in the       *)
(* returned cargo list and adds nothing to the fee: the fee equals the fee *)
(* of the same evaluation without that item.                               *)
(* The code counts the cargo items among the pieces of line 184, so this   *)
(* is violated.                                                            *)
(***************************************************************************)
C1_CargoNeverFeeCharged ==
    /\ Returned("validate_checked_baggage") =>
         \A i \in Range(PreRefs("checked")) :
            InCargoRange(last.pre[i]) =>
               /\ i \in Range(last.ret.cargo_items)
               /\ last.ret.fees =
                    validate_checked_baggage(last.pre, travel_class,
                        WithoutRef(PreRefs("checked"), i),
                        age_category, last.capacity).fees
    /\ (Returned("test_eligibility") /\ ~last.ret.fault) =>
         \A i \in Range(PreRefs("checked")) :
            InCargoRange(last.pre[i]) =>
               /\ i \in Range(last.ret.cargo)
               /\ last.ret.fees =
                    test_eligibility(RemoveAt(last.pre, i), travel_class,
                                     age_category).fees

(***************************************************************************)
(* C2.  When validate_carry_on finds more compliant cabin items than       *)
(* quantity + 1, it evicts exactly (count - allowed) of them and every     *)
(* evicted item weighs at least as much as every item that stays.          *)
(* The code slices the heaviest-first list from max_items on, which are    *)
(* the lightest items, so this is violated.                                *)
(***************************************************************************)
\* the compliant items that validate_carry_on moved to the candidates
Evicted ==
    {i \in Range(last.ret.checked_candidates) :
        WithinCarryOnLimits(last.pre[i], travel_class)}

C2_HeaviestEvicted ==
    Returned("validate_carry_on") =>
       LET stay == Range(last.ret.compliant_items)
           allowed == classes(travel_class).carry_on.quantity + 1
           count == Cardinality(Evicted) + Cardinality(stay)
       IN  count > allowed =>
             /\ Cardinality(Evicted) = count - allowed
             /\ \A e \in Evicted : \A k \in stay :
                   last.pre[e].weight >= last.pre[k].weight

(***************************************************************************)
(* C3.  Fee monotonicity.  Original statement: adding one checked item     *)
(* that is overweight for the class and not in cargo range to a compliant  *)
(* set (verdict true, fee 0) makes test_eligibility return a fee of        *)
(* exactly 75 more.                                                        *)
(***************************************************************************)
\* the checked items that are overweight for the class and not in cargo range
OverweightExtras ==
    {x \in Pool :
        /\ x.storage = "checked" /\ x.fault = "none"
        /\ x.weight > OverlaidWeightLimit(travel_class, age_category)
        /\ x.weight <= 32
        /\ GetTotalSizeCm(x) <= 20300}

\* the last call was test_eligibility and found the set compliant
CompliantSet ==
    /\ Returned("test_eligibility") /\ ~last.ret.fault
    /\ last.ret.valid /\ last.ret.fees = 0

\* the fee of the evaluation of the same set with x added, last or first
FeeWithLast(x) ==
    test_eligibility(Append(last.pre, x), travel_class, age_category).fees

FeeWithFirst(x) ==
    test_eligibility(<<x>> \o last.pre, travel_class, age_category).fees

C3_ExactlyOverweightFee ==
    CompliantSet =>
       \A x \in OverweightExtras :
          /\ FeeWithLast(x) = last.ret.fees + 75
          /\ FeeWithFirst(x) = last.ret.fees + 75

\* the pieces the evaluation left in the hold
HeldPieces == Cardinality({k \in 1..Len(luggages) : luggages[k].storage = "checked"})

\* what the added item x costs: the overweight fee, the oversize fee when it
\* is larger than 158 cm, the extra-piece fee when the hold was full
AddedFee(x) ==
    75 + (IF GetTotalSizeCm(x) > 15800 THEN 100 ELSE 0)
       + (IF HeldPieces >= OverlaidAllowance(travel_class, age_category)
          THEN 150 ELSE 0)

(* C3 as amended: the fee grows by 75, plus 100 when the added item is     *)
(* also larger than 158 cm, plus 150 when the pieces already in the hold   *)
(* fill the overlaid allowance.                                            *)
C3_FeeIncrease ==
    CompliantSet =>
       \A x \in OverweightExtras :
          /\ FeeWithLast(x) = last.ret.fees + AddedFee(x)
          /\ FeeWithFirst(x) = last.ret.fees + AddedFee(x)

\* C3 witness: a compliant set with room in the hold, to which an overweight
\* item of normal size is added and costs 75, and an oversize one 175
C3_Witness ==
    /\ CompliantSet
    /\ Len(last.pre) >= 2
    /\ HeldPieces >= 1
    /\ \E x \in OverweightExtras : FeeWithLast(x) = 75
    /\ \E x \in OverweightExtras : FeeWithLast(x) = 175

(***************************************************************************)
(* C4.  Carry-on capacity invariant: after validate_carry_on the input     *)
(* items that are not in the returned checked-candidate list are at most   *)
(* quantity + 1.                                                           *)
(***************************************************************************)
\* the carry-on and personal items handed to the last call
CabinInput == Range(PreRefs("carry-on")) \cup Range(PreRefs("personal"))

C4_CabinCapacity ==
    Returned("validate_carry_on") =>
       Cardinality(CabinInput \ Range(last.ret.checked_candidates))
          <= classes(travel_class).carry_on.quantity + 1

\* C4 witness: more compliant items than places, and the cabin left full
C4_Witness ==
    /\ Returned("validate_carry_on")
    /\ Evicted # {}
    /\ Cardinality(CabinInput \ Range(last.ret.checked_candidates))
          = classes(travel_class).carry_on.quantity + 1

(***************************************************************************)
(* C5.  The verdict depends on cargo routing only: validate_checked_baggage*)
(* returns success exactly when its cargo list is empty, and               *)
(* test_eligibility, when no internal fault occurred, returns verdict true *)
(* exactly when the returned cargo list is empty.                          *)
(***************************************************************************)
C5_VerdictIffNoCargo ==
    /\ Returned("validate_checked_baggage") =>
          (last.ret.ok <=> last.ret.cargo_items = <<>>)
    /\ (Returned("test_eligibility") /\ ~last.ret.fault) =>
          /\ last.ret.checked_result <=> last.ret.cargo = <<>>
          /\ last.ret.valid <=> last.ret.cargo = <<>>

\* C5 witness: fees and a move to checked, and the verdict is still true
C5_Witness ==
    /\ Returned("test_eligibility") /\ ~last.ret.fault
    /\ last.ret.fees > 0
    /\ last.ret.moved # <<>>
    /\ last.ret.valid

(***************************************************************************)
(* C6.  Already-compliant input: when every cabin item is within the       *)
(* carry-on limits of the class, they are at most quantity + 1, every      *)
(* checked item is within the overlaid checked weight and size limits and  *)
(* the checked items are within the overlaid allowance, test_eligibility   *)
(* returns verdict true, fee 0, nothing moved and nothing sent to cargo.   *)
(***************************************************************************)
WithinCheckedLimits(l, cls, age) ==
    /\ l.fault = "none"
    /\ l.weight <= OverlaidWeightLimit(cls, age)
    /\ GetTotalSizeCm(l) <= 15800

AlreadyCompliant ==
    /\ AllLuggage(last.pre)
    /\ \A i \in CabinInput : WithinCarryOnLimits(last.pre[i], travel_class)
    /\ Cardinality(CabinInput) <= classes(travel_class).carry_on.quantity + 1
    /\ \A i \in Range(PreRefs("checked")) :
          WithinCheckedLimits(last.pre[i], travel_class, age_category)
    /\ Len(PreRefs("checked")) <= OverlaidAllowance(travel_class, age_category)

C6_CompliantInput ==
    (last.op = "test_eligibility" /\ AlreadyCompliant) =>
       /\ ~last.ret.raised /\ ~last.ret.fault
       /\ last.ret.valid
       /\ last.ret.fees = 0
       /\ last.ret.moved = <<>>
       /\ last.ret.cargo = <<>>

\* C6 witness: a compliant request with cabin items and a full hold
C6_Witness ==
    /\ last.op = "test_eligibility" /\ AlreadyCompliant
    /\ CabinInput # {}
    /\ Len(PreRefs("checked")) = OverlaidAllowance(travel_class, age_category)
    /\ \E i \in Range(PreRefs("checked")) :
          last.pre[i].weight = OverlaidWeightLimit(travel_class, age_category)

(***************************************************************************)
(* C7.  Non-compliant cabin items.  Original statement: every carry-on or  *)
(* personal item of the request whose weight exceeds the carry-on weight   *)
(* limit of the class, or one of whose dimensions in cm exceeds the        *)
(* per-dimension limit, is in the moved-to-checked list that               *)
(* test_eligibility returns, and on return it has storage checked and      *)
(* compliant = false.                                                      *)
(***************************************************************************)
\* a readable item that breaks a carry-on limit of the class
ExceedsCarryOnLimits(l, cls) ==
    /\ l.fault = "none"
    /\ \/ l.weight > classes(cls).carry_on.weight_limit
       \/ l.height * UnitFactor(l.unit) > 5500
       \/ l.width * UnitFactor(l.unit) > 4000
       \/ l.depth * UnitFactor(l.unit) > 2300

\* the item of reference i was moved to the hold and stayed there
MovedAndHeld(i) ==
    /\ i \in Range(last.ret.moved)
    /\ luggages[i].storage = "checked"
    /\ ~luggages[i].compliance

C8_NeverRaises ==
    last.op = "test_eligibility" =>
       /\ ~last.ret.raised
       /\ last.ret.fault =>
             /\ ~last.ret.valid
             /\ last.ret.message = <<"Erreur lors de la validation">>
             /\ last.ret.moved = <<>>
             /\ last.ret.cargo = <<>>
             /\ last.ret.fees = 0

\* C8 witness: the checked stage failed after the carry-on stage and the
\* reclassification had changed items of the request
C8_Witness ==
    /\ last.op = "test_eligibility"
    /\ last.ret.fault
    /\ \E i \in 1..Len(last.pre) :
          /\ last.pre[i].fault = "none"
          /\ last.pre[i].storage = "carry-on"
          /\ luggages[i].storage = "checked"

(***************************************************************************)
(* C9.  Unit invariance: replacing the dimensions of one item of the       *)
(* request by the equal lengths in another unit leaves the verdict, the    *)
(* fee and the membership of that item in the moved and cargo lists of     *)
(* test_eligibility unchanged.                                             *)
(***************************************************************************)
\* the length of one unit in tenths of a millimetre
TenthsOfMm(u) == IF u = "cm" THEN 100 ELSE IF u = "mm" THEN 10 ELSE 254

\* the lengths of l are whole numbers of the unit v
WholeIn(l, v) ==
    \A x \in {l.height, l.width, l.depth} :
       (x * TenthsOfMm(l.unit)) % TenthsOfMm(v) = 0

\* l with its dimensions written in the unit v
InUnit(l, v) ==
    [l EXCEPT !.height = (l.height * TenthsOfMm(l.unit)) \div TenthsOfMm(v),
              !.width = (l.width * TenthsOfMm(l.unit)) \div TenthsOfMm(v),
              !.depth = (l.depth * TenthsOfMm(l.unit)) \div TenthsOfMm(v),
              !.unit = v]

\* the evaluation of the request as it was, with item i written in v
EvalInUnit(i, v) ==
    test_eligibility([last.pre EXCEPT ![i] = InUnit(last.pre[i], v)],
                     travel_class, age_category)

\* the evaluation r treats item i as the last call did
SameOutcome(r, i) ==
    /\ r.valid = last.ret.valid
    /\ r.fees = last.ret.fees
    /\ (i \in Range(r.moved)) <=> (i \in Range(last.ret.moved))
    /\ (i \in Range(r.cargo)) <=> (i \in Range(last.ret.cargo))

NonCargoHeld ==
    Range(last.ret.retained_checked_items) \ Range(last.ret.cargo_items)

\* the pieces beyond the overlaid allowance among them
ExtraPieces ==
    Max(0, Cardinality(NonCargoHeld) - OverlaidAllowance(travel_class, age_category))

C10_PieceCountFee ==
    Returned("validate_checked_baggage") =>
       /\ excess_fees.extra_piece * last.ret.excess_items = 150 * ExtraPieces
       /\ Cardinality(Range(last.ret.piece_marked)) = ExtraPieces

(***************************************************************************)
(* C11.  A dimension read failure on one item is recovered locally:        *)
(* test_eligibility still returns the normal result over all items, in     *)
(* which the faulty item is moved to checked by the carry-on stage (when   *)
(* it was a cabin item) and is routed to the cargo list by the checked     *)
(* stage; the failed result is not produced.                               *)
(* Each handler formats the item for its print, Luggage.__str__ reads the  *)
(* dimensions again and raises, so the failed result is what the code      *)
(* returns and this is violated.                                           *)
(***************************************************************************)
\* the items of the request whose dimensions could not be read
DimFaulty == {i \in 1..Len(last.pre) : last.pre[i].fault = "dim"}

C11_PerItemFaultRecovered ==
    (last.op = "test_eligibility" /\ AllLuggage(last.pre) /\ DimFaulty # {}) =>
       /\ ~last.ret.raised /\ ~last.ret.fault
       /\ \A i \in DimFaulty :
             /\ last.pre[i].storage \in {"carry-on", "personal"} =>
                   i \in Range(last.ret.moved)
             /\ i \in Range(last.ret.cargo)

(***************************************************************************)
(* C12.  When test_eligibility returns normally, the compliant flag of     *)
(* every evaluated item says whether the item satisfies the limits of its  *)
(* present storage category: a cabin item has compliant = true exactly     *)
(* when it is within the carry-on limits, and a checked item within the    *)
(* overlaid weight and size limits, not cargo and within the piece         *)
(* allowance has compliant = true, whatever the flag was at construction.  *)
(* The checked stage sets the flag to true for reclaimed items only, so    *)
(* this is violated.                                                       *)
(***************************************************************************)
\* the checked item of reference i satisfies every limit of the hold
SatisfiesCheckedLimits(i) ==
    /\ WithinCheckedLimits(luggages[i], travel_class, age_category)
    /\ i \notin Range(last.ret.cargo)
    /\ HeldPieces <= OverlaidAllowance(travel_class, age_category)

C12_CompliantFlagTracksLimits ==
    (Returned("test_eligibility") /\ ~last.ret.fault) =>
       \A i \in 1..Len(luggages) :
          /\ luggages[i].storage \in {"carry-on", "personal"} =>
                (luggages[i].compliance <=>
                    WithinCarryOnLimits(luggages[i], travel_class))
          /\ (luggages[i].storage = "checked" /\ SatisfiesCheckedLimits(i)) =>
                luggages[i].compliance

(***************************************************************************)
(* C13.  Cabin reclaim in validate_checked_baggage: the number of checked  *)
(* items reclassified to carry-on is min(carry_on_capacity, number of      *)
(* checked items within the carry-on size and weight limits of the class), *)
(* the reclaimed items are the lightest of those, each ends with storage   *)
(* carry-on, compliant = true and excess = false, and none of them takes   *)
(* part in the cargo routing, the fees or the piece count.                 *)
(***************************************************************************)
\* the checked items handed to the last call that fit the cabin
Fitting ==
    {i \in Range(PreRefs("checked")) : WithinCarryOnLimits(last.pre[i], travel_class)}

\* the items the last call returned to the cabin
Reclaimed == Range(last.ret.carryon_candidates)

Min(a, b) == IF a < b THEN a ELSE b

\* the call on the items that stayed in the hold, with no place in the cabin
HoldAlone ==
    validate_checked_baggage(last.pre, travel_class,
        last.ret.retained_checked_items, age_category, 0)

C13_CabinReclaim ==
    Returned("validate_checked_baggage") =>
       /\ Cardinality(Reclaimed) = Min(last.capacity, Cardinality(Fitting))
       /\ Reclaimed \subseteq Fitting
       /\ \A r \in Reclaimed : \A f \in Fitting \ Reclaimed :
             last.pre[r].weight <= last.pre[f].weight
       /\ \A r \in Reclaimed :
             /\ luggages[r].storage = "carry-on"
             /\ luggages[r].compliance
             /\ ~luggages[r].excess
             /\ r \notin Range(last.ret.cargo_items)
             /\ r \notin Range(last.ret.piece_marked)
       /\ last.ret.fees = HoldAlone.fees
       /\ last.ret.excess_items = HoldAlone.excess_items
       /\ last.ret.cargo_items = HoldAlone.cargo_items

\* C13 witness: more fitting items than places, the lighter one was taken,
\* a flag set at construction was cleared, and the hold still costs a fee
C13_Witness ==
    /\ Returned("validate_checked_baggage")
    /\ last.capacity >= 1
    /\ Cardinality(Fitting) > last.capacity
    /\ \E r \in Reclaimed : \E f \in Fitting \ Reclaimed :
          last.pre[r].weight < last.pre[f].weight
    /\ \E r \in Reclaimed : last.pre[r].excess
    /\ last.ret.fees > 0

(***************************************************************************)
(* C14.  Cabin ceiling after the whole evaluation: when test_eligibility   *)
(* returns normally, the items of the request whose storage is carry-on or *)
(* personal (those that stayed plus those reclaimed from checked) are at   *)
(* most quantity + 1.                                                      *)
(***************************************************************************)
\* the items of the request that are in the cabin now
InCabin ==
    {i \in 1..Len(luggages) : luggages[i].storage \in {"carry-on", "personal"}}

C14_CabinCeiling ==
    (Returned("test_eligibility") /\ ~last.ret.fault) =>
       Cardinality(InCabin) <= classes(travel_class).carry_on.quantity + 1

\* C14 witness: one item left the cabin, a checked item took a free place
\* and the cabin is full
C14_Witness ==
    /\ Returned("test_eligibility") /\ ~last.ret.fault
    /\ last.ret.moved # <<>>
    /\ \E i \in InCabin : last.pre[i].storage = "checked"
    /\ Cardinality(InCabin) = classes(travel_class).carry_on.quantity + 1

(***************************************************************************)
(* C15.  Re-evaluation gives the same outcome: a call of test_eligibility  *)
(* on the request as an earlier call left it returns the same verdict, the *)
(* same fee and the same set of cargo items as that call, and an empty     *)
(* moved-to-checked list.                                                  *)
(***************************************************************************)
\* the next call of test_eligibility on the request as it is now
Again == test_eligibility(luggages, travel_class, age_category)

C15_SameOutcomeAgain ==
    Returned("test_eligibility") =>
       /\ Again.valid = last.ret.valid
       /\ Again.fees = last.ret.fees
       /\ Range(Again.cargo) = Range(last.ret.cargo)
       /\ Again.moved = <<>>

\* C15 witness: the first call moved an item out of the cabin, sent one to
\* cargo and charged a fee, and the next call reports the same
C15_Witness ==
    /\ Returned("test_eligibility") /\ ~last.ret.fault
    /\ calls = 1
    /\ last.ret.moved # <<>>
    /\ last.ret.cargo # <<>>
    /\ last.ret.fees > 0
    /\ Again.fees = last.ret.fees
    /\ Again.cargo # <<>>
    /\ Again.moved = <<>>

(***************************************************************************)
(* C16.  Item state is a fixed point of evaluation: after one normal       *)
(* test_eligibility call, the next call on the same request leaves every   *)
(* item's storage category and its excess, special and compliant flags as  *)
(* they are, also when several checked items have the same weight and the  *)
(* piece allowance is exceeded.                                            *)
(* The first call evaluates checked_items + carry_on_to_check, the next    *)
(* one the checked items in the order of the request; among items of equal *)
(* weight the slice of line 190 then marks another item, and excess is     *)
(* never cleared, so this is violated.                                     *)
(***************************************************************************)
C16_ItemStateFixedPoint ==
    (Returned("test_eligibility") /\ ~last.ret.fault) =>
       \A i \in 1..Len(luggages) :
          /\ Again.items[i].storage = luggages[i].storage
          /\ Again.items[i].excess = luggages[i].excess
          /\ Again.items[i].special = luggages[i].special
          /\ Again.items[i].compliance = luggages[i].compliance

(***************************************************************************)
(* C17.  The piece-count marking selects the heaviest retained items:      *)
(* whenever N > 0 extra pieces are charged, N items are marked excess for  *)
(* the piece count and each of them weighs at least as much as every       *)
(* retained checked item that is not so marked.                            *)
(***************************************************************************)
\* the retained items that the piece count did not mark
NotPieceMarked ==
    Range(last.ret.retained_checked_items) \ Range(last.ret.piece_marked)

C17_HeaviestPiecesMarked ==
    (Returned("validate_checked_baggage") /\ last.ret.excess_items > 0) =>
       /\ Cardinality(Range(last.ret.piece_marked)) = last.ret.excess_items
       /\ \A m \in Range(last.ret.piece_marked) :
             /\ luggages[m].excess
             /\ \A k \in NotPieceMarked :
                   last.pre[m].weight >= last.pre[k].weight

\* C17 witness: an extra piece is charged, the heavier item handed in first
\* is marked and a lighter one handed in after it is not
C17_Witness ==
    /\ Returned("validate_checked_baggage")
    /\ last.ret.excess_items > 0
    /\ \E m \in Range(last.ret.piece_marked) : \E k \in NotPieceMarked :
          /\ last.pre[m].weight > last.pre[k].weight
          /\ m < k

(***************************************************************************)
(* C18.  The overweight fee is unreachable in Business and First: for      *)
(* every age category and every item list an evaluation in these classes   *)
(* never adds the 75-unit overweight fee, and the returned fee is          *)
(* 100 x a + 150 x b, a being the number of oversize items charged.        *)
(***************************************************************************)
\* how many times the message of the last call reports the part
Reported(part) ==
    Cardinality({k \in DOMAIN last.ret.message : last.ret.message[k] = part})

C18_NoOverweightFeeAboveEconomy ==
    (/\ last.op \in {"test_eligibility", "validate_checked_baggage"}
     /\ ~last.ret.raised
     /\ travel_class \in {"Business", "First"}) =>
       /\ Reported("Surpoids") = 0
       /\ \E b \in 0..Len(last.pre) :
             last.ret.fees = 100 * Reported("Surtaille") + 150 * b

\* C18 witness: in Business or First an item heavier than the Economy limit
\* stays in the hold, is not cargo, and the evaluation charges a fee
C18_Witness ==
    /\ Returned("test_eligibility") /\ ~last.ret.fault
    /\ travel_class \in {"Business", "First"}
    /\ age_category \in {"child", "infant"}
    /\ last.ret.fees > 0
    /\ \E i \in 1..Len(luggages) :
          /\ luggages[i].storage = "checked"
          /\ luggages[i].weight = 32
          /\ i \notin Range(last.ret.cargo)
    /\ \E i \in 1..Len(luggages) :
          /\ luggages[i].storage = "checked"
          /\ luggages[i].weight = 25

====
